---- MODULE Spec2Model ----
(***************************************************************************)
(* A model of the polyhedra-viewer core: the Polyhedron mesh class         *)
(* (immutable vertex/face arrays, lazily cached edges, structural          *)
(* transforms, fan reconstruction, dihedral lookup, topology fingerprint)  *)
(* and of the Viewer component's URL/store synchronisation.                *)
(*                                                                         *)
(* JavaScript arrays are objects with identity: they live in the store     *)
(* `arrays` and instances refer to them by id, so that sharing of an array *)
(* between two instances, and an in-place edit of one, are visible.        *)
(* Vertex and face indices are 0-based as in the source; a TLA+ sequence   *)
(* is 1-based, so element k of a JavaScript array a is a[k + 1].           *)
(***************************************************************************)
EXTENDS Integers, Sequences, FiniteSets, TLC

VARIABLES
  \* -- the heap of Polyhedron instances (Spec)
  arrays,      \* the array objects: id -> contents
  insts,       \* the Polyhedron instances ever constructed and still referenced
  origin,      \* per instance: how it was made (history, not program state)
  ret,         \* what the last call returned or threw
  limit,       \* the most instances this run constructs
  \* -- one query on one mesh (SpecQuery)
  mesh,        \* the mesh queried: [nv, faces]
  findThrows,  \* whether util.find throws when nothing matches
  qpc,         \* "ready", "fan" (inside the do-while), "returned", "threw"
  qcall,       \* the call made and its argument
  touching,    \* directedAdjacentFaces: touchingFaces (face indices)
  result,      \* directedAdjacentFaces: result
  next,        \* directedAdjacentFaces: next
  qret,        \* the value returned
  \* -- the Viewer component (SpecViewer)
  mounted,     \* componentWillMount has run
  polyhedronName, \* the store's solid name (props.polyhedronName)
  entries,     \* the history stack: the solid of each entry's URL
  index,       \* the current entry
  action,      \* history.action
  pending,     \* props changed: componentWillReceiveProps is due
  cause,       \* what changed the props last (history, not program state)
  handled      \* what componentWillReceiveProps did last, and for which cause

heapVars == <<arrays, insts, origin, ret, limit>>

queryVars == <<mesh, findThrows, qpc, qcall, touching, result, next, qret>>

viewerVars == <<mounted, polyhedronName, entries, index, action, pending, cause, handled>>

vars == <<heapVars, queryVars, viewerVars>>

\* the JavaScript value undefined, for an array reference or a property
Undefined == 0

\* most instances alive at once, for a client using every method
MaxInst == 2

\* most instances alive at once, for a client that only builds and merges
MaxMerge == 3

(***************************************************************************)
(* Small helpers standing for lodash / Array.prototype primitives.         *)
(***************************************************************************)
Range(s) == {s[k] : k \in DOMAIN s}

RECURSIVE Flatten(_)
Flatten(ss) == IF ss = <<>> THEN <<>> ELSE Head(ss) \o Flatten(Tail(ss))

\* the elements of s at the positions P, in order
Pack(s, P) ==
  [i \in 1..Cardinality(P) |->
     s[CHOOSE p \in P : Cardinality({q \in P : q <= p}) = i]]

\* _.uniqWith(_.isEqual): the first occurrence of every value, in order
Uniq(s) == Pack(s, {k \in DOMAIN s : \A j \in 1..(k - 1) : s[j] # s[k]})

\* solidUtils.getCyclic(array, index): the element at index modulo length
getCyclic(a, ix) == a[(ix % Len(a)) + 1]

Min2(a, b) == IF a < b THEN a ELSE b
Max2(a, b) == IF a < b THEN b ELSE a

(***************************************************************************)
(* Face view (Face.js): queries of one face, given its vertex index list.  *)
(***************************************************************************)
numSides(face) == Len(face)

\* the undirected edges of a face: consecutive pairs with wrap-around
getEdges(face) ==
  [k \in DOMAIN face |->
     <<Min2(face[k], getCyclic(face, k)), Max2(face[k], getCyclic(face, k))>>]

\* the directed edges of a face, in traversal order
directedEdges(face) == [k \in DOMAIN face |-> <<face[k], getCyclic(face, k)>>]

\* Array.prototype.indexOf, 0-based, -1 when absent
indexOf(face, v) ==
  IF v \in Range(face)
  THEN (CHOOSE k \in DOMAIN face :
          face[k] = v /\ \A m \in 1..(k - 1) : face[m] # v) - 1
  ELSE -1

nextVertex(face, v) == getCyclic(face, indexOf(face, v) + 1)

prevVertex(face, v) == getCyclic(face, indexOf(face, v) + Len(face) - 1)

(***************************************************************************)
(* Vector math (linAlg.js over toxiclibs Vec3D). Coordinates are integers  *)
(* (fixed point); scaling by 1/n rounds down.                              *)
(***************************************************************************)
vec(p) == p

VAdd(a, b) == <<a[1] + b[1], a[2] + b[2], a[3] + b[3]>>
VSub(a, b) == <<a[1] - b[1], a[2] - b[2], a[3] - b[3]>>

RECURSIVE VSum(_)
VSum(vs) == IF Len(vs) = 1 THEN vs[1] ELSE VAdd(VSum(SubSeq(vs, 1, Len(vs) - 1)), vs[Len(vs)])

\* reduce without an initial value throws a TypeError on an empty array
getCentroidThrows(vectors) == vectors = <<>>

getCentroid(vectors) ==
  LET s == VSum(vectors)
      n == Len(vectors)
  IN <<s[1] \div n, s[2] \div n, s[3] \div n>>

(***************************************************************************)
(* The catalog collaborator (data): name -> {vertices, faces}.             *)
(***************************************************************************)
TetraVertices == << <<1, 1, 1>>, <<-1, -1, 1>>, <<-1, 1, -1>>, <<1, -1, -1>> >>
TetraFaces == << <<0, 1, 2>>, <<0, 3, 1>>, <<0, 2, 3>>, <<1, 3, 2>> >>

isValidSolid(name) == name \in {"tetrahedron"}

getSolidData(name) == [vertices |-> TetraVertices, faces |-> TetraFaces]

(***************************************************************************)
(* Polyhedron: construction and the lazily cached edges.                   *)
(* A heap h is [arrays, insts]; every operation maps a heap to a heap.     *)
(***************************************************************************)
Alloc(h, a) == [h EXCEPT !.arrays = Append(@, a)]

LastArray(h) == Len(h.arrays)

LastInst(h) == Len(h.insts)

\* constructor({vertices, faces, edges, name}): stores vertices and faces, and
\* edges when given; the name argument is not stored
Constructor(h, args) ==
  [h EXCEPT !.insts = Append(@,
     [vertices |-> args.vertices,
      faces |-> args.faces,
      _edges |-> IF "edges" \in DOMAIN args /\ args.edges # Undefined
                 THEN args.edges ELSE Undefined,
      _vertexVectors |-> Undefined])]

\* getAllEdges(): every face's edges, flattened, without duplicates
getAllEdges(faces) == Uniq(Flatten([k \in DOMAIN faces |-> getEdges(faces[k])]))

\* get edges(): computes and stores _edges on first access
EdgesGetter(h, i) ==
  IF h.insts[i]._edges = Undefined
  THEN LET t == Alloc(h, getAllEdges(h.arrays[h.insts[i].faces]))
       IN [t EXCEPT !.insts[i]._edges = LastArray(t)]
  ELSE h

\* _.pick(object, keys): the keys the object has, with their values
Pick(object, keys) == [k \in keys \cap DOMAIN object |-> object[k]]

\* an instance as _.pick sees it: its own properties and the edges getter
WithGetters(inst) ==
  [k \in DOMAIN inst \cup {"edges"} |-> IF k = "edges" THEN inst._edges ELSE inst[k]]

\* toJSON(): _.pick(this, ['vertices', 'faces', 'edges', 'name']); 'edges' is
\* the getter, so the snapshot computes and caches the edges of `this`
toJSON(h, i) ==
  LET t == EdgesGetter(h, i)
  IN [h |-> t,
      json |-> Pick(WithGetters(t.insts[i]), {"vertices", "faces", "edges", "name"})]

\* vertexVectors(): computes and stores _vertexVectors on first access
vertexVectors(h, i) ==
  IF h.insts[i]._vertexVectors = Undefined
  THEN LET vs == h.arrays[h.insts[i].vertices]
           t == Alloc(h, [k \in DOMAIN vs |-> vec(vs[k])])
       IN [t EXCEPT !.insts[i]._vertexVectors = LastArray(t)]
  ELSE h

(***************************************************************************)
(* Structural transforms. Each returns the heap with the new instance last.*)
(***************************************************************************)
\* withVertices(vertices): new Polyhedron({ ...this.toJSON(), vertices })
withVertices(h, i, vid) ==
  LET t == toJSON(h, i)
  IN Constructor(t.h, [t.json EXCEPT !.vertices = vid])

\* withFaces(faces): new Polyhedron({ ...this.toJSON(), faces })
withFaces(h, i, fid) ==
  LET t == toJSON(h, i)
  IN Constructor(t.h, [t.json EXCEPT !.faces = fid])

\* addVertices(vertices): this.withVertices(this.vertices.concat(vertices))
addVertices(h, i, vs) ==
  LET t == Alloc(h, h.arrays[h.insts[i].vertices] \o vs)
  IN withVertices(t, i, LastArray(t))

\* addFaces(faces): this.withFaces(this.faces.concat(faces))
addFaces(h, i, fs) ==
  LET t == Alloc(h, h.arrays[h.insts[i].faces] \o fs)
  IN withFaces(t, i, LastArray(t))

\* the intermediate instance of a chained call is unreferenced afterwards
DropInst(h, k) ==
  [h EXCEPT !.insts = SubSeq(@, 1, k - 1) \o SubSeq(@, k + 1, Len(@))]

numVertices(h, i) == Len(h.arrays[h.insts[i].vertices])

numFaces(h, i) == Len(h.arrays[h.insts[i].faces])

\* the vertex count of the intermediate instance, other's vertices included
OffsetAfterMerge(h, i, mid) == numVertices(h, mid)

\* the offset that addPolyhedron's arrow function reads: this.numVertices()
\* of the receiver i, which addVertices has not changed
MergeOffset(h, i, mid) == numVertices(h, i)

\* addPolyhedron(other): this.addVertices(other.vertices).addFaces(shifted)
addPolyhedron(h, i, j) ==
  LET t == addVertices(h, i, h.arrays[h.insts[j].vertices])
      mid == LastInst(t)
      other == t.arrays[t.insts[j].faces]
      off == MergeOffset(t, i, mid)
      shifted == [k \in DOMAIN other |->
                    [m \in DOMAIN other[k] |-> other[k][m] + off]]
  IN DropInst(addFaces(t, mid, shifted), mid)

\* _.pullAt(array, indexes) on the contents: the elements not at the indexes
PullAt(a, idxs) == Pack(a, {k \in DOMAIN a : (k - 1) \notin idxs})

\* removeFaces without the copy: pullAt edits this.faces itself
RemoveFacesInPlace(h, i, idxs) ==
  LET fid == h.insts[i].faces
      t == [h EXCEPT !.arrays[fid] = PullAt(@, idxs)]
  IN withFaces(t, i, fid)

\* removeFaces(faceObjs): removed = [...this.faces]; pullAt(removed, fIndex
\* of each); withFaces(removed). removeFace(face) is the one-face case.
removeFaces(h, i, idxs) ==
  LET t == Alloc(h, PullAt(h.arrays[h.insts[i].faces], idxs))
  IN withFaces(t, i, LastArray(t))

removeFace(h, i, fIndex) == removeFaces(h, i, {fIndex})

\* the iteratees handed to mapVertices / mapFaces
VertexIteratees == {"negate", "throw"}

FaceIteratees == {"reverse", "throw"}

ApplyVertexIteratee(it, v) == <<0 - v[1], 0 - v[2], 0 - v[3]>>

ApplyFaceIteratee(it, face) == [k \in DOMAIN face |-> face[Len(face) + 1 - k]]

\* Array.prototype.map calls the iteratee once per element: a throwing one
\* throws unless the array is empty
MapThrows(a, it) == it = "throw" /\ a # <<>>

\* mapVertices(iteratee): this.withVertices(this.vertices.map(iteratee))
mapVertices(h, i, it) ==
  LET vs == h.arrays[h.insts[i].vertices]
      t == Alloc(h, [k \in DOMAIN vs |-> ApplyVertexIteratee(it, vs[k])])
  IN withVertices(t, i, LastArray(t))

\* mapFaces(iteratee): this.withFaces(this.getFaces().map(iteratee))
mapFaces(h, i, it) ==
  LET fs == h.arrays[h.insts[i].faces]
      t == Alloc(h, [k \in DOMAIN fs |-> ApplyFaceIteratee(it, fs[k])])
  IN withFaces(t, i, LastArray(t))

\* center(): centroid of vertexVectors(), then withVertices(each v - centroid)
center(h, i) ==
  LET t == vertexVectors(h, i)
      vv == t.arrays[t.insts[i]._vertexVectors]
      c == getCentroid(vv)
      u == Alloc(t, [k \in DOMAIN vv |-> VSub(vv[k], c)])
  IN withVertices(u, i, LastArray(u))

(***************************************************************************)
(* The calls a client makes, one action per method. Raw arrays handed in   *)
(* by the caller are fresh array objects.                                  *)
(***************************************************************************)
CatalogNames == {"tetrahedron", "no-such-solid"}

\* what Polyhedron.of is called with: a two-sided triangle
OfInputs ==
  { [vertices |-> << <<0, 0, 0>>, <<2, 0, 0>>, <<0, 2, 0>> >>,
     faces |-> << <<0, 1, 2>>, <<0, 2, 1>> >>] }

RawVertexInputs == { <<>> }

RawFaceInputs == { <<>>, << <<0, 1, 2>> >> }

AddVertexInputs == { << <<0, 0, 2>> >> }

AddFaceInputs == { << <<0, 2, 1>> >> }

Here == [arrays |-> arrays, insts |-> insts]

NoJson == [vertices |-> Undefined, faces |-> Undefined, edges |-> Undefined]

\* the history of an instance that was given no name
NoName == ""

NoCall == [op |-> "none", src |-> 0, other |-> 0, out |-> 0, threw |-> FALSE,
           json |-> NoJson]

HeapFrame == UNCHANGED <<limit, queryVars, viewerVars>>

\* a transform of instance src returned a new instance, the last of h
Returns(h, op, src, other) ==
  /\ HeapFrame
  /\ arrays' = h.arrays
  /\ insts' = h.insts
  /\ origin' = Append(origin,
       [op |-> op, src |-> src,
        name |-> IF src = 0 THEN NoName ELSE origin[src].name])
  /\ ret' = [op |-> op, src |-> src, other |-> other, out |-> LastInst(h),
             threw |-> FALSE, json |-> NoJson]

\* a call threw; h holds what it stored before throwing
Throws(h, op, src, other) ==
  /\ HeapFrame
  /\ arrays' = h.arrays
  /\ insts' = h.insts
  /\ origin' = origin
  /\ ret' = [op |-> op, src |-> src, other |-> other, out |-> 0,
             threw |-> TRUE, json |-> NoJson]

CanConstruct == Len(insts) < limit

Insts == 1..Len(insts)

\* static get(name)
Get(name) ==
  /\ IF ~isValidSolid(name)
     THEN Throws(Here, "get", 0, 0)
     ELSE LET data == getSolidData(name)
              t == Alloc(Alloc(Here, data.vertices), data.faces)
              u == Constructor(t, [vertices |-> LastArray(t) - 1,
                                   faces |-> LastArray(t), name |-> name])
          IN /\ CanConstruct
             /\ HeapFrame
             /\ arrays' = u.arrays
             /\ insts' = u.insts
             /\ origin' = Append(origin, [op |-> "get", src |-> 0, name |-> name])
             /\ ret' = [op |-> "get", src |-> 0, other |-> 0, out |-> LastInst(u),
                        threw |-> FALSE, json |-> NoJson]

\* static of(vertices, faces)
Of(vs, fs) ==
  /\ CanConstruct
  /\ LET t == Alloc(Alloc(Here, vs), fs)
         u == Constructor(t, [vertices |-> LastArray(t) - 1, faces |-> LastArray(t)])
     IN Returns(u, "of", 0, 0)

WithVertices(i, vs) ==
  /\ CanConstruct
  /\ LET t == Alloc(Here, vs) IN Returns(withVertices(t, i, LastArray(t)), "withVertices", i, 0)

WithFaces(i, fs) ==
  /\ CanConstruct
  /\ LET t == Alloc(Here, fs) IN Returns(withFaces(t, i, LastArray(t)), "withFaces", i, 0)

AddVertices(i, vs) == CanConstruct /\ Returns(addVertices(Here, i, vs), "addVertices", i, 0)

AddFaces(i, fs) == CanConstruct /\ Returns(addFaces(Here, i, fs), "addFaces", i, 0)

AddPolyhedron(i, j) == CanConstruct /\ Returns(addPolyhedron(Here, i, j), "addPolyhedron", i, j)

RemoveFace(i, fIndex) == CanConstruct /\ Returns(removeFace(Here, i, fIndex), "removeFace", i, 0)

\* the faces handed to removeFace: the last face of the mesh
RemoveFaceInputs(i) == {f \in 0..(numFaces(Here, i) - 1) : f = numFaces(Here, i) - 1}

\* the face sets handed to removeFaces: none, or the first and the last
RemoveInputs(i) ==
  LET n == numFaces(Here, i)
  IN {{}} \cup (IF n >= 2 THEN {{0, n - 1}} ELSE {})

RemoveFaces(i, idxs) == CanConstruct /\ Returns(removeFaces(Here, i, idxs), "removeFaces", i, 0)

MapVertices(i, it) ==
  IF MapThrows(arrays[insts[i].vertices], it)
  THEN Throws(Here, "mapVertices", i, 0)
  ELSE CanConstruct /\ Returns(mapVertices(Here, i, it), "mapVertices", i, 0)

MapFaces(i, it) ==
  IF MapThrows(arrays[insts[i].faces], it)
  THEN Throws(Here, "mapFaces", i, 0)
  ELSE CanConstruct /\ Returns(mapFaces(Here, i, it), "mapFaces", i, 0)

\* center() of a mesh without vertices throws in getCentroid, after
\* vertexVectors() has stored its cache
Center(i) ==
  IF getCentroidThrows(arrays[insts[i].vertices])
  THEN Throws(vertexVectors(Here, i), "center", i, 0)
  ELSE CanConstruct /\ Returns(center(Here, i), "center", i, 0)

\* reading p.edges
ReadEdges(i) ==
  /\ insts[i]._edges = Undefined
  /\ LET t == EdgesGetter(Here, i)
     IN /\ HeapFrame
        /\ arrays' = t.arrays
        /\ insts' = t.insts
        /\ origin' = origin
        /\ ret' = [op |-> "edges", src |-> i, other |-> 0, out |-> 0,
                   threw |-> FALSE, json |-> NoJson]

\* p.toJSON()
ToJSON(i) ==
  /\ LET t == toJSON(Here, i)
     IN /\ HeapFrame
        /\ arrays' = t.h.arrays
        /\ insts' = t.h.insts
        /\ origin' = origin
        /\ ret' = [op |-> "toJSON", src |-> i, other |-> 0, out |-> 0,
                   threw |-> FALSE, json |-> t.json]

HeapNext ==
  \/ \E name \in CatalogNames : Get(name)
  \/ \E in \in OfInputs : Of(in.vertices, in.faces)
  \/ \E i \in Insts, vs \in RawVertexInputs : WithVertices(i, vs)
  \/ \E i \in Insts, fs \in RawFaceInputs : WithFaces(i, fs)
  \/ \E i \in Insts, vs \in AddVertexInputs : AddVertices(i, vs)
  \/ \E i \in Insts, fs \in AddFaceInputs : AddFaces(i, fs)
  \/ \E i \in Insts, j \in Insts : AddPolyhedron(i, j)
  \/ \E i \in Insts : \E f \in RemoveFaceInputs(i) : RemoveFace(i, f)
  \/ \E i \in Insts : \E idxs \in RemoveInputs(i) : RemoveFaces(i, idxs)
  \/ \E i \in Insts, it \in VertexIteratees : MapVertices(i, it)
  \/ \E i \in Insts, it \in FaceIteratees : MapFaces(i, it)
  \/ \E i \in Insts : Center(i)
  \/ \E i \in Insts : ReadEdges(i)
  \/ \E i \in Insts : ToJSON(i)

(***************************************************************************)
(* Queries on one mesh m = [nv, faces]: the derived graphs.                *)
(***************************************************************************)
\* a face reference that is undefined (face indices are 0-based)
UndefinedFace == -1

FaceOf(m, f) == m.faces[f + 1]

\* vertexToFaceGraph(): per vertex, the faces that list it, in face order
\* (mapping[vIndex].push(face) for every vIndex of every face)
vertexToFaceGraph(m) ==
  [v \in 0..(m.nv - 1) |->
     Flatten([k \in DOMAIN m.faces |->
        LET face == m.faces[k]
        IN Flatten([p \in DOMAIN face |-> IF face[p] = v THEN <<k - 1>> ELSE <<>>])])]

\* mapping[vIndex] is undefined for an index that is not a vertex: push throws
vertexToFaceGraphThrows(m) ==
  \E k \in DOMAIN m.faces : \E p \in DOMAIN m.faces[k] :
     m.faces[k][p] \notin 0..(m.nv - 1)

\* adjacentFaces(...vIndices): the faces of the vertices, unique by fIndex
adjacentFaces(m, vIndices) ==
  Uniq(Flatten([k \in DOMAIN vIndices |-> vertexToFaceGraph(m)[vIndices[k]]]))

\* the predicate with next and prev exchanged
CheckVertexSwapped(m, nx, f, vIndex) ==
  nextVertex(FaceOf(m, nx), vIndex) = prevVertex(FaceOf(m, f), vIndex)

\* checkVertex: f => next.prevVertex(vIndex) === f.nextVertex(vIndex)
checkVertex(m, nx, f, vIndex) ==
  prevVertex(FaceOf(m, nx), vIndex) = nextVertex(FaceOf(m, f), vIndex)

\* util.find(touchingFaces, checkVertex): the position of the first face
\* that satisfies the predicate, 0 when none does
find(m, tch, nx, vIndex) ==
  LET hits == {k \in DOMAIN tch : checkVertex(m, nx, tch[k], vIndex)}
  IN IF hits = {} THEN 0 ELSE CHOOSE k \in hits : \A j \in hits : k <= j

\* directedEdgeToFaceGraph(): _.set(edgesToFaces, [v1, v2], face) for every
\* directed edge of every face in order, so the last face that has it wins.
\* The faces that have the directed edge (v1, v2):
DirectedEdgeOwners(m, v1, v2) ==
  {k \in DOMAIN m.faces : <<v1, v2>> \in Range(directedEdges(m.faces[k]))}

\* graph[v1][v2]: the last face that has the directed edge, if any
directedEdgeToFaceGraph(m, v1, v2) ==
  LET own == DirectedEdgeOwners(m, v1, v2)
  IN IF own = {} THEN UndefinedFace
     ELSE (CHOOSE k \in own : \A j \in own : j <= k) - 1

\* graph[v1] exists once some directed edge starts at v1
GraphHasRow(m, v1) ==
  \E k \in DOMAIN m.faces : v1 \in Range(m.faces[k])

\* edgeFaces([v1, v2]): [graph[v1][v2], graph[v2][v1]]; reading a property of
\* an undefined row throws a TypeError
edgeFacesThrows(m, e) == ~GraphHasRow(m, e[1]) \/ ~GraphHasRow(m, e[2])

edgeFaces(m, e) ==
  <<directedEdgeToFaceGraph(m, e[1], e[2]), directedEdgeToFaceGraph(m, e[2], e[1])>>

\* getDihedralAngle(edge): the outcome, and the two faces the angle is between
getDihedralAngle(m, e) ==
  IF e[1] \notin 0..(m.nv - 1) \/ e[2] \notin 0..(m.nv - 1)
  THEN [kind |-> "TypeError", faces |-> <<>>]       \* getMidpoint of undefined
  ELSE IF edgeFacesThrows(m, e)
  THEN [kind |-> "TypeError", faces |-> <<>>]
  ELSE IF UndefinedFace \in Range(edgeFaces(m, e))
  THEN [kind |-> "TypeError", faces |-> <<>>]       \* undefined.centroid()
  ELSE [kind |-> "angle", faces |-> edgeFaces(m, e)]

(***************************************************************************)
(* The topology fingerprint: faceCount, faceGraph, faceAdjacencyList,      *)
(* isSame.                                                                 *)
(***************************************************************************)
\* _.countBy(sequence of side counts): side count -> how many
countBy(ns) ==
  [n \in Range(ns) |-> Cardinality({k \in DOMAIN ns : ns[k] = n})]

\* faceCount(): _.countBy(getFaces(), numSides)
faceCount(m) == countBy([k \in DOMAIN m.faces |-> numSides(m.faces[k])])

\* faceGraph(): for every edge, [f1, f2] = edgeFaces(edge); reading f.fIndex
\* of an undefined face throws a TypeError
faceGraphThrows(m) ==
  \E e \in Range(getAllEdges(m.faces)) :
     edgeFacesThrows(m, e) \/ UndefinedFace \in Range(edgeFaces(m, e))

\* faceGraph()[f]: graph[f1].push(f2); graph[f2].push(f1) over the edges
faceGraph(m, f) ==
  LET es == getAllEdges(m.faces)
  IN Flatten([k \in DOMAIN es |->
       LET fs == edgeFaces(m, es[k])
       IN (IF fs[1] = f THEN <<fs[2]>> ELSE <<>>) \o
          (IF fs[2] = f THEN <<fs[1]>> ELSE <<>>)])

\* face.adjacentFaces() reads the mesh's face graph
faceAdjacentFaces(m, f) == faceGraph(m, f)

\* the entry of one face: { n, adj: countBy(adjacent faces' side counts) }
faceAdjacencyCounts(m) ==
  [k \in DOMAIN m.faces |->
     [n |-> numSides(m.faces[k]),
      adj |-> LET a == faceAdjacentFaces(m, k - 1)
              IN countBy([j \in DOMAIN a |-> numSides(FaceOf(m, a[j]))])]]

\* in _.sortBy an undefined key sorts after every number
UndefinedKey == 1000000

\* the side counts whose adjacency counts are sort keys
SortedSides == <<3, 4, 5, 6, 8, 10>>

\* the iteratees ['n', 'adj.length', 'adj[3]', ..., 'adj[10]'] applied to an
\* entry; adj is a plain object, so adj.length is undefined
SortKey(entry) ==
  <<entry.n, UndefinedKey>> \o
  [k \in DOMAIN SortedSides |->
     IF SortedSides[k] \in DOMAIN entry.adj THEN entry.adj[SortedSides[k]]
     ELSE UndefinedKey]

\* lexicographic order on keys of equal length
KeyGreater(a, b) ==
  \E k \in DOMAIN a : a[k] > b[k] /\ \A j \in 1..(k - 1) : a[j] = b[j]

\* _.sortBy: ascending by key, stable (equal keys keep their input order):
\* an entry comes after those with a smaller key and the earlier equal ones
sortBy(list) ==
  LET key == [k \in DOMAIN list |-> SortKey(list[k])]
      rank == [k \in DOMAIN list |->
                 1 + Cardinality({j \in DOMAIN list :
                       \/ KeyGreater(key[k], key[j])
                       \/ (key[j] = key[k] /\ j < k)})]
  IN [i \in DOMAIN list |-> list[CHOOSE k \in DOMAIN list : rank[k] = i]]

\* faceAdjacencyList(): the entries sorted by the fixed keys
faceAdjacencyList(m) == sortBy(faceAdjacencyCounts(m))

isSameThrows(m, o) ==
  faceCount(m) = faceCount(o) /\ (faceGraphThrows(m) \/ faceGraphThrows(o))

\* isSame(other): equal face counts, then equal adjacency lists (_.isEqual)
isSame(m, o) ==
  IF faceCount(m) # faceCount(o) THEN FALSE
  ELSE faceAdjacencyList(m) = faceAdjacencyList(o)

(***************************************************************************)
(* The meshes queried.                                                     *)
(***************************************************************************)
\* an n-gonal pyramid: apex 0, base 1..n, n triangles and the base
Pyramid(n) ==
  [nv |-> n + 1,
   faces |-> [k \in 1..n |-> <<0, k, (k % n) + 1>>] \o << [j \in 1..n |-> n + 1 - j] >>]

\* the mesh addPolyhedron builds from two meshes
Merged(a, b) ==
  [nv |-> a.nv + b.nv,
   faces |-> a.faces \o
             [k \in DOMAIN b.faces |->
                [p \in DOMAIN b.faces[k] |-> b.faces[k][p] + a.nv]]]

Tetrahedron == [nv |-> 4, faces |-> TetraFaces]

Octahedron ==
  [nv |-> 6,
   faces |-> << <<0, 1, 2>>, <<0, 3, 4>>, <<5, 2, 1>>, <<0, 2, 3>>,
                <<5, 4, 3>>, <<0, 4, 1>>, <<5, 3, 2>>, <<5, 1, 4>> >>]

SquarePyramid == Pyramid(4)

TwoSidedTriangle == [nv |-> 3, faces |-> << <<0, 1, 2>>, <<0, 2, 1>> >>]

\* two tetrahedra that share vertex 0: two fans around it
Bowtie ==
  [nv |-> 7,
   faces |-> TetraFaces \o
             << <<0, 4, 5>>, <<0, 6, 4>>, <<0, 5, 6>>, <<4, 6, 5>> >>]

\* a tetrahedron without its last face: vertices 1, 2, 3 are on the boundary
OpenTetrahedron == [nv |-> 4, faces |-> SubSeq(TetraFaces, 1, 3)]

\* three triangles on the edge 0-1
Book == [nv |-> 5, faces |-> << <<0, 1, 2>>, <<0, 1, 3>>, <<1, 0, 4>> >>]

\* a tetrahedron and a vertex no face uses
TetrahedronAndPoint == [nv |-> 5, faces |-> TetraFaces]

\* a tetrahedron with its last face turned over
FlippedTetrahedron ==
  [nv |-> 4, faces |-> SubSeq(TetraFaces, 1, 3) \o << <<1, 2, 3>> >>]

\* a heptagonal and an enneagonal pyramid in one mesh
HeptaEnnea == Merged(Pyramid(7), Pyramid(9))

TestMeshes ==
  {Tetrahedron, Octahedron, SquarePyramid, TwoSidedTriangle, Bowtie,
   OpenTetrahedron, Book, TetrahedronAndPoint, FlippedTetrahedron, HeptaEnnea}

\* relabelings: a permutation of the vertex indices and one of the face order
VertexPerms == {"id", "reverse", "rotate"}

FacePerms == {"id", "reverse", "rotate"}

PermuteVertex(vp, nv, v) ==
  CASE vp = "id" -> v
    [] vp = "reverse" -> nv - 1 - v
    [] vp = "rotate" -> (v + 1) % nv

PermuteFaces(fp, fs) ==
  CASE fp = "id" -> fs
    [] fp = "reverse" -> [k \in DOMAIN fs |-> fs[Len(fs) + 1 - k]]
    [] fp = "rotate" -> [k \in DOMAIN fs |-> fs[(k % Len(fs)) + 1]]

Relabel(m, vp, fp) ==
  [nv |-> m.nv,
   faces |-> PermuteFaces(fp,
     [k \in DOMAIN m.faces |->
        [p \in DOMAIN m.faces[k] |-> PermuteVertex(vp, m.nv, m.faces[k][p])]])]

(***************************************************************************)
(* The query calls. directedAdjacentFaces is one action for its prologue   *)
(* and one per iteration of its do-while loop.                             *)
(***************************************************************************)
QueryFrame == UNCHANGED <<heapVars, viewerVars>>

NoRet == [kind |-> "none", value |-> <<>>]

\* directedAdjacentFaces(vIndex), up to the loop
DirectedAdjacentFaces(vIndex) ==
  /\ qpc = "ready"
  /\ qcall' = [op |-> "directedAdjacentFaces", arg |-> vIndex]
  /\ IF vertexToFaceGraphThrows(mesh)
     THEN /\ qpc' = "threw"
          /\ qret' = [kind |-> "TypeError", value |-> <<>>]
          /\ UNCHANGED <<touching, result, next>>
     ELSE LET tch == adjacentFaces(mesh, <<vIndex>>)
          IN /\ touching' = tch
             /\ result' = <<>>
             /\ next' = IF tch = <<>> THEN UndefinedFace ELSE tch[1]
             /\ qpc' = "fan"
             /\ qret' = qret
  /\ UNCHANGED <<mesh, findThrows>>
  /\ QueryFrame

\* one iteration: result.push(next); next = find(touchingFaces, checkVertex);
\* then the test result.length < touchingFaces.length
DoWhile ==
  /\ qpc = "fan"
  /\ LET pushed == Append(result, next)
         k == IF touching = <<>> \/ next = UndefinedFace THEN 0
              ELSE find(mesh, touching, next, qcall.arg)
     IN /\ result' = pushed
        /\ IF touching # <<>> /\ next = UndefinedFace
           THEN \* checkVertex reads undefined.prevVertex
                /\ qpc' = "threw"
                /\ qret' = [kind |-> "TypeError", value |-> <<>>]
                /\ next' = next
           ELSE IF k = 0 /\ findThrows
           THEN /\ qpc' = "threw"
                /\ qret' = [kind |-> "Error", value |-> <<>>]
                /\ next' = next
           ELSE /\ next' = IF k = 0 THEN UndefinedFace ELSE touching[k]
                /\ IF Len(pushed) < Len(touching)
                   THEN qpc' = "fan" /\ qret' = qret
                   ELSE qpc' = "returned" /\ qret' = [kind |-> "faces", value |-> pushed]
  /\ UNCHANGED <<mesh, findThrows, qcall, touching>>
  /\ QueryFrame

\* getDihedralAngle(edge). Its own throw (`if (!c1 || !c2)`) is never
\* reached: c1 and c2 are vectors whenever the map before it returned.
GetDihedralAngle(e) ==
  /\ qpc = "ready"
  /\ qcall' = [op |-> "getDihedralAngle", arg |-> e]
  /\ LET r == getDihedralAngle(mesh, e)
     IN /\ qpc' = IF r.kind = "angle" THEN "returned" ELSE "threw"
        /\ qret' = [kind |-> r.kind, value |-> r.faces]
  /\ UNCHANGED <<mesh, findThrows, touching, result, next>>
  /\ QueryFrame

\* isSame(other), other a relabeling of the mesh
IsSame(vp, fp) ==
  /\ qpc = "ready"
  /\ qcall' = [op |-> "isSame", arg |-> <<vp, fp>>]
  /\ LET other == Relabel(mesh, vp, fp)
     IN IF isSameThrows(mesh, other)
        THEN qpc' = "threw" /\ qret' = [kind |-> "TypeError", value |-> <<>>]
        ELSE qpc' = "returned" /\ qret' = [kind |-> "boolean", value |-> isSame(mesh, other)]
  /\ UNCHANGED <<mesh, findThrows, touching, result, next>>
  /\ QueryFrame

QueryNext ==
  \/ \E v \in 0..(mesh.nv - 1) : DirectedAdjacentFaces(v)
  \/ DoWhile
  \/ \E v1 \in 0..(mesh.nv - 1), v2 \in 0..(mesh.nv - 1) : v1 # v2 /\ GetDihedralAngle(<<v1, v2>>)
  \/ \E vp \in VertexPerms, fp \in FacePerms : IsSame(vp, fp)

(***************************************************************************)
(* The Viewer component: the URL's solid (the route parameter of the       *)
(* current history entry) against the store's polyhedronName.              *)
(***************************************************************************)
Solids == {"tetrahedron", "cube", "octahedron"}

\* most history entries
MaxEntries == 3

ViewerFrame == UNCHANGED <<heapVars, queryVars>>

\* props.solid: the route parameter of the current location
solid == entries[index]

\* onLoad is setPolyhedron bound to the store, polyhedronName its selector:
\* after onLoad(name) the store's name is name
onLoad(name) == name

\* history.push(path): drops the entries after the current one, appends
historyPush(name) == SubSeq(entries, 1, index) \o <<name>>

ComponentWillMount ==
  /\ ~mounted
  /\ mounted' = TRUE
  /\ polyhedronName' = onLoad(solid)
  \* history.replace(history.location.pathname): same URL, action REPLACE
  /\ action' = "REPLACE"
  /\ pending' = TRUE
  /\ cause' = "mount"
  /\ UNCHANGED <<entries, index, handled>>
  /\ ViewerFrame

\* the browser's back button
BrowserBack ==
  /\ mounted /\ ~pending
  /\ index > 1
  /\ index' = index - 1
  /\ action' = "POP"
  /\ pending' = TRUE
  /\ cause' = "pop"
  /\ UNCHANGED <<mounted, polyhedronName, entries, handled>>
  /\ ViewerFrame

\* the browser's forward button
BrowserForward ==
  /\ mounted /\ ~pending
  /\ index < Len(entries)
  /\ index' = index + 1
  /\ action' = "POP"
  /\ pending' = TRUE
  /\ cause' = "pop"
  /\ UNCHANGED <<mounted, polyhedronName, entries, handled>>
  /\ ViewerFrame

\* the application changes the solid in the store (an operation was applied)
SetPolyhedron(name) ==
  /\ mounted /\ ~pending
  /\ index < MaxEntries
  /\ name # polyhedronName
  /\ polyhedronName' = name
  /\ pending' = TRUE
  /\ cause' = "store"
  /\ UNCHANGED <<mounted, entries, index, action, handled>>
  /\ ViewerFrame

ComponentWillReceiveProps ==
  /\ mounted /\ pending
  /\ IF solid # polyhedronName
     THEN IF action = "POP"
          THEN /\ polyhedronName' = onLoad(solid)
               /\ handled' = [act |-> "onLoad", cause |-> cause]
               /\ pending' = TRUE
               /\ cause' = "sync"
               /\ UNCHANGED <<entries, index, action>>
          ELSE /\ entries' = historyPush(polyhedronName)
               /\ index' = index + 1
               /\ action' = "PUSH"
               /\ handled' = [act |-> "push", cause |-> cause]
               /\ pending' = TRUE
               /\ cause' = "sync"
               /\ UNCHANGED polyhedronName
     ELSE /\ handled' = [act |-> "none", cause |-> cause]
          /\ pending' = FALSE
          /\ cause' = cause
          /\ UNCHANGED <<polyhedronName, entries, index, action>>
  /\ UNCHANGED mounted
  /\ ViewerFrame

ViewerNext ==
  \/ ComponentWillMount
  \/ BrowserBack
  \/ BrowserForward
  \/ \E name \in Solids : SetPolyhedron(name)
  \/ ComponentWillReceiveProps

(***************************************************************************)
(* The specifications.                                                     *)
(***************************************************************************)
\* a client working with Polyhedron instances
Init ==
  /\ arrays = <<>>
  /\ insts = <<>>
  /\ origin = <<>>
  /\ ret = NoCall
  /\ limit = MaxInst
  /\ mesh = Tetrahedron
  /\ findThrows = TRUE
  /\ qpc = "idle"
  /\ qcall = [op |-> "none", arg |-> 0]
  /\ touching = <<>>
  /\ result = <<>>
  /\ next = UndefinedFace
  /\ qret = NoRet
  /\ mounted = FALSE
  /\ polyhedronName = "tetrahedron"
  /\ entries = <<"tetrahedron">>
  /\ index = 1
  /\ action = "POP"
  /\ pending = FALSE
  /\ cause = "none"
  /\ handled = [act |-> "none", cause |-> "none"]

Next == HeapNext

Spec == Init /\ [][Next]_vars

\* a client that builds meshes from the catalog and from raw arrays (a
\* two-sided triangle, an empty mesh, a face without its vertices) and
\* merges them
MergeInputs ==
  OfInputs \cup
  { [vertices |-> <<>>, faces |-> <<>>],
    [vertices |-> << <<0, 0, 0>> >>, faces |-> << <<0, 1, 2>> >>] }

InitMerge ==
  /\ arrays = <<>>
  /\ insts = <<>>
  /\ origin = <<>>
  /\ ret = NoCall
  /\ limit = MaxMerge
  /\ mesh = Tetrahedron
  /\ findThrows = TRUE
  /\ qpc = "idle"
  /\ qcall = [op |-> "none", arg |-> 0]
  /\ touching = <<>>
  /\ result = <<>>
  /\ next = UndefinedFace
  /\ qret = NoRet
  /\ mounted = FALSE
  /\ polyhedronName = "tetrahedron"
  /\ entries = <<"tetrahedron">>
  /\ index = 1
  /\ action = "POP"
  /\ pending = FALSE
  /\ cause = "none"
  /\ handled = [act |-> "none", cause |-> "none"]

NextMerge ==
  \/ \E name \in CatalogNames : Get(name)
  \/ \E in \in MergeInputs : Of(in.vertices, in.faces)
  \/ \E i \in Insts, j \in Insts : AddPolyhedron(i, j)
  \/ \E i \in Insts : ReadEdges(i)

SpecMerge == InitMerge /\ [][NextMerge]_vars

\* one query on one of the meshes
InitQuery ==
  /\ arrays = <<>>
  /\ insts = <<>>
  /\ origin = <<>>
  /\ ret = NoCall
  /\ limit = MaxInst
  /\ mesh \in TestMeshes
  /\ findThrows \in BOOLEAN
  /\ qpc = "ready"
  /\ qcall = [op |-> "none", arg |-> 0]
  /\ touching = <<>>
  /\ result = <<>>
  /\ next = UndefinedFace
  /\ qret = NoRet
  /\ mounted = FALSE
  /\ polyhedronName = "tetrahedron"
  /\ entries = <<"tetrahedron">>
  /\ index = 1
  /\ action = "POP"
  /\ pending = FALSE
  /\ cause = "none"
  /\ handled = [act |-> "none", cause |-> "none"]

SpecQuery == InitQuery /\ [][QueryNext]_vars

\* the Viewer component before mount: one history entry, and the history's
\* initial action is POP
InitViewer ==
  /\ arrays = <<>>
  /\ insts = <<>>
  /\ origin = <<>>
  /\ ret = NoCall
  /\ limit = MaxInst
  /\ mesh = Tetrahedron
  /\ findThrows = TRUE
  /\ qpc = "idle"
  /\ qcall = [op |-> "none", arg |-> 0]
  /\ touching = <<>>
  /\ result = <<>>
  /\ next = UndefinedFace
  /\ qret = NoRet
  /\ mounted = FALSE
  /\ polyhedronName \in Solids
  /\ entries \in {<<s>> : s \in Solids}
  /\ index = 1
  /\ action = "POP"
  /\ pending = FALSE
  /\ cause = "none"
  /\ handled = [act |-> "none", cause |-> "none"]

SpecViewer == InitViewer /\ [][ViewerNext]_vars

(***************************************************************************)
(* Properties of the Polyhedron heap (Spec).                               *)
(***************************************************************************)
Vertices(i) == arrays[insts[i].vertices]

Faces(i) == arrays[insts[i].faces]

\* every vertex index of every face is a position of the vertex list
ValidFaces(vs, fs) ==
  \A k \in DOMAIN fs : \A p \in DOMAIN fs[k] : fs[k][p] \in 0..(Len(vs) - 1)

TopologyOps ==
  {"withFaces", "addFaces", "addPolyhedron", "removeFace", "removeFaces", "mapFaces"}

\* C1: an instance made by a topology-changing transform has fresh caches:
\* the edges read from it are the edges of its own faces, and its edge
\* collection is not the one of the instance it was derived from.
C1_FreshEdges ==
  \A i \in Insts :
    (origin[i].op \in TopologyOps /\ insts[i]._edges # Undefined) =>
       /\ Range(arrays[insts[i]._edges]) = Range(getAllEdges(Faces(i)))
       /\ insts[i]._edges # insts[origin[i].src]._edges

\* C4: addPolyhedron(other) returns this mesh's vertices followed by other's,
\* and this mesh's faces followed by other's faces shifted by this mesh's
\* vertex count before the merge; valid inputs give a valid result whose
\* appended faces refer to the positions they referred to in other.
C4_AddPolyhedron ==
  [][(ret'.op = "addPolyhedron" /\ Len(insts') = Len(insts) + 1) =>
       LET V == Vertices(ret'.src)
           F == Faces(ret'.src)
           W == Vertices(ret'.other)
           G == Faces(ret'.other)
           NV == arrays'[insts'[ret'.out].vertices]
           NF == arrays'[insts'[ret'.out].faces]
       IN /\ NV = V \o W
          /\ Len(NF) = Len(F) + Len(G)
          /\ \A k \in DOMAIN F : NF[k] = F[k]
          /\ \A k \in DOMAIN G :
               NF[Len(F) + k] = [p \in DOMAIN G[k] |-> G[k][p] + Len(V)]
          /\ (ValidFaces(V, F) /\ ValidFaces(W, G)) =>
               /\ ValidFaces(NV, NF)
               /\ \A k \in DOMAIN G : \A p \in DOMAIN G[k] :
                    NV[NF[Len(F) + k][p] + 1] = W[G[k][p] + 1]
    ]_vars

\* a merge of two different valid meshes that both have vertices and faces
C4_Witness ==
  /\ ret.op = "addPolyhedron"
  /\ ret.src # ret.other
  /\ Vertices(ret.src) # <<>> /\ Faces(ret.other) # <<>>
  /\ Vertices(ret.src) # Vertices(ret.other)
  /\ ValidFaces(Vertices(ret.src), Faces(ret.src))
  /\ ValidFaces(Vertices(ret.other), Faces(ret.other))
  /\ Len(Faces(ret.out)) = Len(Faces(ret.src)) + Len(Faces(ret.other))

\* C7: no call, failing or not, changes the vertex list or the face list of
\* an existing instance; a transform that succeeds returns a new instance
\* and one that throws returns none.
C7_NeverMutated ==
  [][/\ Len(insts') >= Len(insts)
     /\ \A i \in Insts :
          /\ arrays'[insts'[i].vertices] = Vertices(i)
          /\ arrays'[insts'[i].faces] = Faces(i)
     /\ ret' # ret =>
          /\ ret'.threw => Len(insts') = Len(insts)
          /\ ret'.out # 0 => (ret'.out \notin Insts /\ ret'.out \in 1..Len(insts'))
    ]_vars

\* center() threw on an instance derived by a transform, after it had
\* stored the vector cache of that instance
C7_Witness ==
  /\ ret.op = "center" /\ ret.threw
  /\ origin[ret.src].op = "withVertices"
  /\ Faces(ret.src) # <<>>
  /\ insts[ret.src]._vertexVectors # Undefined

\* C8: the snapshot of an instance got by a catalog name, or derived from one
\* by transforms, carries that name.
C8_SnapshotCarriesName ==
  (ret.op = "toJSON" /\ origin[ret.src].name # NoName) =>
     ("name" \in DOMAIN ret.json /\ ret.json.name = origin[ret.src].name)

(***************************************************************************)
(* Properties of the queries (SpecQuery).                                  *)
(***************************************************************************)
\* the faces that list vertex v
TouchingSet(m, v) == {f \in 0..(Len(m.faces) - 1) : v \in Range(FaceOf(m, f))}

\* the faces that follow f in the fan around v
FanSuccessors(m, v, f) ==
  {g \in TouchingSet(m, v) :
     nextVertex(FaceOf(m, g), v) = prevVertex(FaceOf(m, f), v)}

RECURSIVE FanReach(_, _, _, _)
FanReach(m, v, S, k) ==
  IF k = 0 THEN S
  ELSE FanReach(m, v, S \cup UNION {FanSuccessors(m, v, f) : f \in S}, k - 1)

\* the faces touching v form exactly one consistent cycle
OneCycle(m, v) ==
  LET T == TouchingSet(m, v)
  IN /\ T # {}
     /\ \A f \in T : Cardinality({p \in DOMAIN FaceOf(m, f) : FaceOf(m, f)[p] = v}) = 1
     /\ \A f \in T : Cardinality(FanSuccessors(m, v, f)) = 1
     /\ \A f \in T : FanReach(m, v, {f}, Cardinality(T)) = T

IsFanCall == qcall.op = "directedAdjacentFaces"

\* C2: directedAdjacentFaces fails for a vertex whose faces do not form one
\* cycle, and never returns a list with a repeated, a missing or an
\* undefined face (stated for a util.find that throws when nothing matches).
C2_FanValidated ==
  (IsFanCall /\ findThrows /\ qpc = "returned") =>
     /\ OneCycle(mesh, qcall.arg)
     /\ UndefinedFace \notin Range(qret.value)
     /\ Range(qret.value) = TouchingSet(mesh, qcall.arg)
     /\ Len(qret.value) = Cardinality(TouchingSet(mesh, qcall.arg))

\* C3: around a vertex whose faces form one cycle the call does not throw,
\* runs one iteration per touching face, and returns every touching face
\* once, the first touching face first, each face g after a face f having
\* g.nextVertex(v) = f.prevVertex(v).
C3_FanOrder ==
  (IsFanCall /\ OneCycle(mesh, qcall.arg)) =>
     LET v == qcall.arg
         T == TouchingSet(mesh, v)
     IN /\ qpc # "threw"
        /\ Len(result) <= Cardinality(T)
        /\ qpc = "returned" =>
             /\ qret.value = result
             /\ Len(result) = Cardinality(T)
             /\ Range(result) = T
             /\ \A f \in T : result[1] <= f
             /\ \A k \in 1..(Len(result) - 1) :
                  nextVertex(FaceOf(mesh, result[k + 1]), v) =
                  prevVertex(FaceOf(mesh, result[k]), v)

\* a fan of four faces returned in an order that is not the face order
C3_Witness ==
  /\ IsFanCall /\ qpc = "returned"
  /\ OneCycle(mesh, qcall.arg)
  /\ Len(qret.value) = 4
  /\ qret.value # touching

\* every directed edge of the mesh is in exactly one face, and so is its
\* reverse
ClosedManifold(m) ==
  /\ ~vertexToFaceGraphThrows(m)
  /\ \A k \in DOMAIN m.faces : \A e \in Range(directedEdges(m.faces[k])) :
       /\ Cardinality(DirectedEdgeOwners(m, e[1], e[2])) = 1
       /\ Cardinality(DirectedEdgeOwners(m, e[2], e[1])) = 1

\* C5: isSame(p, q) is true for every relabeling q of a mesh p.
C5_RelabelInvariant ==
  (qcall.op = "isSame" /\ ClosedManifold(mesh)) =>
     (qpc = "returned" /\ qret.value = TRUE)

\* C6: getDihedralAngle(edge) returns an angle exactly when the edge has two
\* adjacent faces, one per direction, and fails otherwise.
C6_DihedralValidated ==
  qcall.op = "getDihedralAngle" =>
     (qpc = "returned" <=>
        /\ Cardinality(DirectedEdgeOwners(mesh, qcall.arg[1], qcall.arg[2])) = 1
        /\ Cardinality(DirectedEdgeOwners(mesh, qcall.arg[2], qcall.arg[1])) = 1)

(***************************************************************************)
(* Properties of the Viewer (SpecViewer).                                  *)
(***************************************************************************)
\* C10: a mismatch caused by a change of the store is answered by a push of
\* the store's name, and onLoad(solid) only answers a browser POP.
C10_StoreChangeIsPushed ==
  /\ handled.cause = "store" => handled.act = "push"
  /\ handled.act = "onLoad" => handled.cause = "pop"

====
